---- MODULE Spec2Model ----
(***************************************************************************)
(* A model of @superhero/deep: deep merge (src/merge.js), deep clone       *)
(* (src/unnamed/part_000, lines 1-173), deep intersect (src/freeze.js,     *)
(* lines 56-195) and deep assign (src/assign.js, lines 92-251).            *)
(*                                                                         *)
(* The program state is a JavaScript heap: a sequence of objects, an       *)
(* object's identity being its index.  One action is one top-level call.   *)
(* Recursion is modelled by RECURSIVE operators that thread a machine      *)
(* state m (heap, visited tables, raised error, accessor invocations).     *)
(***************************************************************************)
EXTENDS Integers, Sequences, FiniteSets, TLC

VARIABLES
  heap0,   \* the heap before the call
  heap,    \* the heap
  op,      \* the operation called: "merge", "intersect", "assign", "clone"
  args,    \* its argument list
  opts,    \* clone's options object
  ret,     \* the value returned
  err,     \* "none", or the name of the error the call threw
  calls,   \* getter/setter invocations during the call
  trace,   \* events recorded during the call
  cmemo,   \* clone's WeakMap when the call ended: <<original, duplicate>>
  imemo,   \* intersect's WeakMaps when the call ended: <<a, b, entry>>
  prev,    \* the value an earlier clone call returned, before a second one
  pc       \* "ready" before the call, "done" after it, "again" after a
           \* second clone call

vars == <<heap0, heap, op, args, opts, ret, err, calls, trace, cmemo, imemo, prev, pc>>

(***************************************************************************)
(* Bounds of the model.                                                    *)
(***************************************************************************)
\* longest input sequence
MaxLen == 2
\* depth of nested calls of assign after which the engine's call stack is
\* taken to be exhausted (RangeError)
StackLimit == 6

(***************************************************************************)
(* Values.  A value is a pair <<tag, n>>: the undefined value, a primitive *)
(* number, a function (only ever used as getter/setter) or a reference to  *)
(* heap object n.  Object.is on two values is equality of the pairs.       *)
(***************************************************************************)
Undef == <<"u", 0>>

Prim(n) == <<"p", n>>

Fn(n) == <<"f", n>>

Ref(i) == <<"r", i>>

IsRef(v) == v[1] = "r"

(***************************************************************************)
(* Objects.  kind: "arr" | "rec" | "set" | "map" | "oth" (an object whose   *)
(* Object.prototype.toString tag is none of Array/Object/Set/Map/Date/     *)
(* RegExp).  elems: the elements of an array, the members of a set, the    *)
(* <<key, value>> entries of a map, or the <<key, descriptor>> own         *)
(* properties of a record, in insertion order.  lvl: 0 extensible,         *)
(* 1 non-extensible, 2 sealed, 3 frozen (Object.preventExtensions/seal/    *)
(* freeze were applied).                                                   *)
(***************************************************************************)
NewObj(k, es) == [kind |-> k, elems |-> es, lvl |-> 0]

\* property descriptors: data {value, writable, enumerable, configurable}
\* or accessor {get, set, enumerable, configurable}
DataDesc(v, w, e, c) ==
  [data |-> TRUE, value |-> v, get |-> Undef, set |-> Undef, w |-> w, e |-> e, c |-> c]

AccDesc(g, s, e, c) ==
  [data |-> FALSE, value |-> Undef, get |-> g, set |-> s, w |-> FALSE, e |-> e, c |-> c]

\* Object.prototype.toString.call(v)
TypeTag(h, v) ==
  CASE v[1] = "u" -> "Undefined"
    [] v[1] = "p" -> "Number"
    [] v[1] = "f" -> "Function"
    [] OTHER      -> CASE h[v[2]].kind = "arr" -> "Array"
                       [] h[v[2]].kind = "rec" -> "Object"
                       [] h[v[2]].kind = "set" -> "Set"
                       [] h[v[2]].kind = "map" -> "Map"
                       [] OTHER                -> "Error"

\* the sequence s without the elements that occurred earlier in it
\* (the iteration order of new Set(s))
Dedup(s) ==
  LET keep(i) == \A j \in 1..(i-1) : s[j] # s[i]
      F[i \in 0..Len(s)] ==
        IF i = 0 THEN <<>>
        ELSE IF keep(i) THEN Append(F[i-1], s[i]) ELSE F[i-1]
  IN F[Len(s)]

Contains(s, v) == \E i \in 1..Len(s) : s[i] = v

\* position of key k among the entries es of a record or map (0: absent)
KeyIndex(es, k) ==
  IF \E i \in 1..Len(es) : es[i][1] = k
  THEN CHOOSE i \in 1..Len(es) : es[i][1] = k
  ELSE 0

HasKey(es, k) == KeyIndex(es, k) # 0

Lookup(es, k) == es[KeyIndex(es, k)][2]

\* entries es with key k set to x: in place when present, appended when not
Store(es, k, x) ==
  IF HasKey(es, k)
  THEN [es EXCEPT ![KeyIndex(es, k)] = <<k, x>>]
  ELSE Append(es, <<k, x>>)

(***************************************************************************)
(* Integrity levels of an object.                                          *)
(***************************************************************************)
IsExtensible(o) == o.lvl = 0

IsSealed(o) ==
  /\ o.lvl > 0
  /\ CASE o.kind \in {"rec", "oth"} -> \A i \in 1..Len(o.elems) : ~o.elems[i][2].c
       [] o.kind = "arr" -> o.lvl >= 2 \/ Len(o.elems) = 0
       [] OTHER          -> TRUE

IsFrozen(o) ==
  /\ o.lvl > 0
  /\ CASE o.kind \in {"rec", "oth"} -> \A i \in 1..Len(o.elems) :
                               /\ ~o.elems[i][2].c
                               /\ o.elems[i][2].data => ~o.elems[i][2].w
       [] o.kind = "arr" -> o.lvl = 3
       [] OTHER          -> TRUE

(***************************************************************************)
(* The machine state threaded through a call.                              *)
(*   h      the heap                                                       *)
(*   v      the value the last operator returned                           *)
(*   d      the descriptor the last descriptor operator returned           *)
(*   vs     the list of values the last list operator returned             *)
(*   flag   the boolean the last predicate operator returned               *)
(*   err    "none", or the name of the error that was thrown               *)
(*   calls  number of getter/setter invocations so far                     *)
(*   mseen  merge's WeakSet of left-hand containers                        *)
(*   cseen  clone's WeakMap, as a set of <<original, duplicate>>           *)
(*   fseen  the WeakMap of an earlier clone call, held by the closure that  *)
(*          call stored in options.fallback                                *)
(*   iseen  intersect's WeakMap of WeakMaps, as a set of <<a, b, entry>>   *)
(*   path   the containers (pairs, for intersect) whose call is on the     *)
(*          recursion stack; not program state, kept for the properties    *)
(*   fin    intersect's pairs whose call has returned, each with the value *)
(*          it returned; not program state, kept for the properties        *)
(*   log    events recorded for the properties; not program state          *)
(***************************************************************************)
Machine(h) ==
  [h |-> h, v |-> Undef, err |-> "none", calls |-> 0,
   d |-> DataDesc(Undef, TRUE, TRUE, TRUE), vs |-> <<>>, flag |-> FALSE,
   mseen |-> {}, cseen |-> {}, fseen |-> {}, iseen |-> {}, path |-> {}, fin |-> {}, log |-> {}]

Return(m, v) == [m EXCEPT !.v = v]

Throw(m, e) == [m EXCEPT !.err = e, !.v = Undef]

Failed(m) == m.err # "none"

\* allocate object o; the reference to it is the returned value
Alloc(m, o) == [m EXCEPT !.h = Append(m.h, o), !.v = Ref(Len(m.h) + 1)]

\* Object.defineProperty(Ref(id), k, d) with a complete descriptor d
DefineProperty(m, id, k, d) ==
  LET o == m.h[id]
  IN IF ~HasKey(o.elems, k)
     THEN IF IsExtensible(o)
          THEN [m EXCEPT !.h[id].elems = Append(o.elems, <<k, d>>)]
          ELSE Throw(m, "TypeError")
     ELSE LET cur == Lookup(o.elems, k)
              allowed ==
                \/ cur.c
                \/ /\ ~d.c
                   /\ d.e = cur.e
                   /\ d.data = cur.data
                   /\ IF cur.data
                      THEN cur.w \/ (~d.w /\ d.value = cur.value)
                      ELSE d.get = cur.get /\ d.set = cur.set
          IN IF allowed
             THEN [m EXCEPT !.h[id].elems = Store(o.elems, k, d)]
             ELSE Throw(m, "TypeError")

(***************************************************************************)
(* Deep clone: src/unnamed/part_000, lines 1-173.  o is the options        *)
(* object: [imm |-> preservesImutable, enum |-> preservesEnumerable].      *)
(***************************************************************************)
RECURSIVE deepClone(_, _, _)
RECURSIVE cloneArray(_, _, _)
RECURSIVE cloneArrayLoop(_, _, _, _, _)
RECURSIVE cloneObject(_, _, _)
RECURSIVE cloneObjectLoop(_, _, _, _, _)
RECURSIVE cloneSet(_, _, _)
RECURSIVE cloneSetLoop(_, _, _, _, _)
RECURSIVE cloneMap(_, _, _)
RECURSIVE cloneMapLoop(_, _, _, _, _)
RECURSIVE cloneProperty(_, _, _, _, _)

\* the WeakMap bound to the parameter `seen` in the current frame: the one
\* this call allocated, or the one an earlier call's fallback closure holds
Seen(m, o) == IF o.table = "captured" THEN m.fseen ELSE m.cseen

\* seen.get(x): the duplicate recorded for original x, or Undef
SeenGet(m, o, x) ==
  IF \E p \in Seen(m, o) : p[1] = x
  THEN Ref((CHOOSE p \in Seen(m, o) : p[1] = x)[2])
  ELSE Undef

SeenSet(m, o, x, c) ==
  IF o.table = "captured"
  THEN [m EXCEPT !.fseen = {p \in m.fseen : p[1] # x} \cup {<<x, c>>}]
  ELSE [m EXCEPT !.cseen = {p \in m.cseen : p[1] # x} \cup {<<x, c>>}]

\* part_000:24, options.fallback(value): the closure stored by this call
\* passes this call's `seen`, a closure found on the options object passes
\* the `seen` of the call that stored it
Fallback(o) == IF o.own THEN o ELSE [o EXCEPT !.table = "captured"]

\* Object.preventExtensions / Object.seal / Object.freeze
PreventedObj(o) == [o EXCEPT !.lvl = IF o.lvl < 1 THEN 1 ELSE o.lvl]

SealedObj(o) ==
  [o EXCEPT !.lvl = IF o.lvl < 2 THEN 2 ELSE o.lvl,
            !.elems = IF o.kind \in {"rec", "oth"}
                      THEN [i \in 1..Len(o.elems) |->
                              <<o.elems[i][1], [o.elems[i][2] EXCEPT !.c = FALSE]>>]
                      ELSE o.elems]

FrozenObj(o) ==
  [o EXCEPT !.lvl = 3,
            !.elems = IF o.kind \in {"rec", "oth"}
                      THEN [i \in 1..Len(o.elems) |->
                              <<o.elems[i][1],
                                [o.elems[i][2] EXCEPT !.c = FALSE, !.w = FALSE]>>]
                      ELSE o.elems]

PreventExtensions(m, id) == [m EXCEPT !.h[id] = PreventedObj(@)]

Seal(m, id) == [m EXCEPT !.h[id] = SealedObj(@)]

Freeze(m, id) == [m EXCEPT !.h[id] = FrozenObj(@)]

\* part_000:27-45, the replication of the original's integrity level
CopyIntegrity(m, o, value, cl) ==
  IF o.imm /\ IsRef(value) /\ IsRef(cl)
  THEN LET m1 == IF ~IsExtensible(m.h[value[2]]) THEN PreventExtensions(m, cl[2]) ELSE m
           m2 == IF IsSealed(m1.h[value[2]]) THEN Seal(m1, cl[2]) ELSE m1
           m3 == IF IsFrozen(m2.h[value[2]]) THEN Freeze(m2, cl[2]) ELSE m2
       IN m3
  ELSE m

deepClone(m, o, value) ==
  IF Failed(m) THEN m
  ELSE LET t  == TypeTag(m.h, value)
           m1 == CASE t = "Array"  -> cloneArray(m, o, value)
                   [] t = "Object" -> cloneObject(m, o, value)
                   [] t = "Set"    -> cloneSet(m, o, value)
                   [] t = "Map"    -> cloneMap(m, o, value)
                   [] OTHER        -> cloneObject(m, Fallback(o), value)
       IN IF Failed(m1) THEN m1
          ELSE Return(CopyIntegrity(m1, o, value, m1.v), m1.v)

cloneArrayLoop(m, o, array, cl, i) ==
  IF Failed(m) \/ i > Len(m.h[array].elems) THEN m
  ELSE LET m1 == deepClone(m, o, m.h[array].elems[i])
       IN IF Failed(m1) THEN m1
          ELSE IF ~IsExtensible(m1.h[cl])
          THEN Throw(m1, "TypeError")
          ELSE cloneArrayLoop([m1 EXCEPT !.h[cl].elems = Append(@, m1.v)],
                              o, array, cl, i + 1)

cloneArray(m, o, array) ==
  LET already == SeenGet(m, o, array[2])
  IN IF already # Undef THEN Return(m, already)
     ELSE LET m1 == Alloc(m, NewObj("arr", <<>>))
              cl == m1.v[2]
              m2 == cloneArrayLoop(SeenSet(m1, o, array[2], cl), o, array[2], cl, 1)
          IN IF Failed(m2) THEN m2 ELSE Return(m2, Ref(cl))

\* cloneProperty defining the original's value, not a clone of it
cloneProperty_Shares(m, o, src, target, key) ==
  LET descriptor == Lookup(m.h[src].elems, key)
  IN IF descriptor.data
     THEN DefineProperty(m, target, key,
            DataDesc(descriptor.value,
                     IF o.imm  THEN descriptor.w ELSE TRUE,
                     IF o.enum THEN descriptor.e ELSE TRUE,
                     IF o.imm  THEN descriptor.c ELSE TRUE))
     ELSE DefineProperty(m, target, key,
            AccDesc(descriptor.get, descriptor.set,
                    IF o.enum THEN descriptor.e ELSE TRUE,
                    IF o.imm  THEN descriptor.c ELSE TRUE))

\* cloneProperty copying the three flags whatever the options say
cloneProperty_KeepsFlags(m, o, src, target, key) ==
  LET descriptor == Lookup(m.h[src].elems, key)
  IN IF descriptor.data
     THEN LET m1 == deepClone(m, o, descriptor.value)
          IN IF Failed(m1) THEN m1
             ELSE DefineProperty(m1, target, key, [descriptor EXCEPT !.value = m1.v])
     ELSE DefineProperty(m, target, key, descriptor)

\* part_000:142-173
cloneProperty(m, o, src, target, key) ==
  LET descriptor == Lookup(m.h[src].elems, key)
  IN IF descriptor.data
     THEN LET m1 == deepClone(m, o, descriptor.value)
          IN IF Failed(m1) THEN m1
             ELSE DefineProperty(m1, target, key,
                    DataDesc(m1.v,
                             IF o.imm  THEN descriptor.w ELSE TRUE,
                             IF o.enum THEN descriptor.e ELSE TRUE,
                             IF o.imm  THEN descriptor.c ELSE TRUE))
     ELSE DefineProperty(m, target, key,
            AccDesc(descriptor.get, descriptor.set,
                    IF o.enum THEN descriptor.e ELSE TRUE,
                    IF o.imm  THEN descriptor.c ELSE TRUE))

cloneObjectLoop(m, o, value, cl, i) ==
  IF Failed(m) \/ i > Len(m.h[value].elems) THEN m
  ELSE cloneObjectLoop(cloneProperty(m, o, value, cl, m.h[value].elems[i][1]),
                       o, value, cl, i + 1)

cloneObject(m, o, value) ==
  IF ~IsRef(value) THEN Return(m, value)
  ELSE LET already == SeenGet(m, o, value[2])
       IN IF already # Undef THEN Return(m, already)
          ELSE LET m1 == Alloc(m, NewObj(m.h[value[2]].kind, <<>>))
                   cl == m1.v[2]
                   m2 == cloneObjectLoop(SeenSet(m1, o, value[2], cl), o, value[2], cl, 1)
               IN IF Failed(m2) THEN m2 ELSE Return(m2, Ref(cl))

cloneSetLoop(m, o, set, cl, i) ==
  IF Failed(m) \/ i > Len(m.h[set].elems) THEN m
  ELSE LET m1 == deepClone(m, o, m.h[set].elems[i])
       IN IF Failed(m1) THEN m1
          ELSE cloneSetLoop(
                 IF Contains(m1.h[cl].elems, m1.v) THEN m1
                 ELSE [m1 EXCEPT !.h[cl].elems = Append(@, m1.v)],
                 o, set, cl, i + 1)

cloneSet(m, o, set) ==
  LET already == SeenGet(m, o, set[2])
  IN IF already # Undef THEN Return(m, already)
     ELSE LET m1 == Alloc(m, NewObj("set", <<>>))
              cl == m1.v[2]
              m2 == cloneSetLoop(SeenSet(m1, o, set[2], cl), o, set[2], cl, 1)
          IN IF Failed(m2) THEN m2 ELSE Return(m2, Ref(cl))

cloneMapLoop(m, o, map, cl, i) ==
  IF Failed(m) \/ i > Len(m.h[map].elems) THEN m
  ELSE LET m1 == deepClone(m, o, m.h[map].elems[i][1])
           m2 == deepClone(m1, o, m.h[map].elems[i][2])
       IN IF Failed(m2) THEN m2
          ELSE cloneMapLoop([m2 EXCEPT !.h[cl].elems = Store(@, m1.v, m2.v)],
                            o, map, cl, i + 1)

cloneMap(m, o, map) ==
  LET already == SeenGet(m, o, map[2])
  IN IF already # Undef THEN Return(m, already)
     ELSE LET m1 == Alloc(m, NewObj("map", <<>>))
              cl == m1.v[2]
              m2 == cloneMapLoop(SeenSet(m1, o, map[2], cl), o, map[2], cl, 1)
          IN IF Failed(m2) THEN m2 ELSE Return(m2, Ref(cl))

\* part_000:1-10; every call allocates its own WeakMap, and stores the
\* fallback closure only on an options object that has none.  fallback is
\* <<>> for such an object, and <<memo>> for an options object an earlier
\* call has been given, memo being that call's WeakMap.
clone(m, input, o, fallback) ==
  deepClone([m EXCEPT !.cseen = {},
                      !.fseen = IF fallback = <<>> THEN {} ELSE fallback[1]],
            [imm |-> o.imm, enum |-> o.enum,
             own |-> fallback = <<>>, table |-> "seen"],
            input)


(***************************************************************************)
(* Deep merge: src/merge.js.                                               *)
(***************************************************************************)
RECURSIVE mergeAandB(_, _, _)
RECURSIVE mergeMap(_, _, _)
RECURSIVE mergeMapLoop(_, _, _, _)
RECURSIVE mergeObject(_, _, _)
RECURSIVE mergeObjectLoop(_, _, _, _, _)
RECURSIVE mergeDescriptor(_, _, _)
RECURSIVE merge(_, _)

\* mergeArray without the Set: a.concat(b)
mergeArray_NoDedup(m, a, b) ==
  Alloc(m, NewObj("arr", m.h[a[2]].elems \o m.h[b[2]].elems))

\* merge.js:57-60, [...new Set(a.concat(b))]
mergeArray(m, a, b) ==
  Alloc(m, NewObj("arr", Dedup(m.h[a[2]].elems \o m.h[b[2]].elems)))

\* merge.js:62-65, new Set([...a, ...b])
mergeSet(m, a, b) ==
  Alloc(m, NewObj("set", Dedup(m.h[a[2]].elems \o m.h[b[2]].elems)))

\* merge.js:69-74 and 95-100: the guard on the WeakSet of left-hand containers.
\* The log records each position cut by the guard and whether the left-hand
\* container was on the recursion path at that moment.
SeenHas(m, a) == a[2] \in m.mseen

CutAt(m, a, b) ==
  Return([m EXCEPT !.log = @ \cup {<<"cut", a[2], b[2], a[2] \in m.path>>}], b)

Enter(m, a) == [m EXCEPT !.mseen = @ \cup {a[2]}, !.path = @ \cup {a[2]}]

Leave(m, a) == [m EXCEPT !.path = @ \ {a[2]}]

mergeMapLoop(m, b, out, i) ==
  IF Failed(m) \/ i > Len(m.h[b].elems) THEN m
  ELSE LET key    == m.h[b].elems[i][1]
           bValue == m.h[b].elems[i][2]
       IN IF HasKey(m.h[out].elems, key)
          THEN LET m1 == mergeAandB(m, Lookup(m.h[out].elems, key), bValue)
               IN mergeMapLoop([m1 EXCEPT !.h[out].elems = Store(@, key, m1.v)],
                               b, out, i + 1)
          ELSE mergeMapLoop([m EXCEPT !.h[out].elems = Store(@, key, bValue)],
                            b, out, i + 1)

\* mergeMap writing into a itself instead of into new Map(a)
mergeMap_InPlace(m, a, b) ==
  IF SeenHas(m, a) THEN CutAt(m, a, b)
  ELSE LET m2 == mergeMapLoop(Enter(m, a), b[2], a[2], 1)
       IN Return(Leave(m2, a), a)

\* merge.js:67-92
mergeMap(m, a, b) ==
  IF SeenHas(m, a) THEN CutAt(m, a, b)
  ELSE LET m1  == Alloc(Enter(m, a), NewObj("map", m.h[a[2]].elems))
           out == m1.v[2]
           m2  == mergeMapLoop(m1, b[2], out, 1)
       IN Return(Leave(m2, a), Ref(out))

\* mergeDescriptor taking all of b's flags instead of the conjunction
mergeDescriptor_FlagsOfB(m, da, db) ==
  IF da.data /\ db.data
  THEN LET m1 == mergeAandB(m, da.value, db.value)
       IN [m1 EXCEPT !.d = DataDesc(m1.v, db.w, db.e, db.c)]
  ELSE [m EXCEPT !.d = db]

\* mergeDescriptor taking both slots of two accessors from b
mergeDescriptor_AccessorOfB(m, da, db) ==
  LET enumerable   == da.e /\ db.e
      configurable == da.c /\ db.c
  IN CASE da.data /\ db.data ->
            LET m1 == mergeAandB(m, da.value, db.value)
            IN [m1 EXCEPT !.d = DataDesc(m1.v, da.w /\ db.w, enumerable, configurable)]
       [] ~da.data /\ db.data ->
            [m EXCEPT !.d = DataDesc(db.value, db.w, enumerable, configurable)]
       [] OTHER ->
            [m EXCEPT !.d = AccDesc(db.get, db.set, enumerable, configurable)]

\* merge.js:147-198
mergeDescriptor(m, da, db) ==
  LET enumerable   == da.e /\ db.e
      configurable == da.c /\ db.c
  IN CASE da.data /\ db.data ->
            LET m1 == mergeAandB(m, da.value, db.value)
            IN [m1 EXCEPT !.d = DataDesc(m1.v, da.w /\ db.w, enumerable, configurable)]
       [] ~da.data /\ ~db.data ->
            [m EXCEPT !.d = AccDesc(IF db.get # Undef THEN db.get ELSE da.get,
                                    IF db.set # Undef THEN db.set ELSE da.set,
                                    enumerable, configurable)]
       [] ~da.data /\ db.data ->
            [m EXCEPT !.d = DataDesc(db.value, db.w, enumerable, configurable)]
       [] OTHER ->
            [m EXCEPT !.d = AccDesc(db.get, db.set, enumerable, configurable)]

\* merge.js:119-142, the loop over the keys of b
mergeObjectLoop(m, a, b, out, i) ==
  IF Failed(m) \/ i > Len(m.h[b].elems) THEN m
  ELSE LET key == m.h[b].elems[i][1]
           db  == m.h[b].elems[i][2]
       IN IF HasKey(m.h[a].elems, key)
          THEN LET m1 == mergeDescriptor(m, Lookup(m.h[a].elems, key), db)
               IN mergeObjectLoop(DefineProperty(m1, out, key, m1.d), a, b, out, i + 1)
          ELSE mergeObjectLoop(DefineProperty(m, out, key, db), a, b, out, i + 1)

\* merge.js:93-145; lines 104-117 copy the properties only a has
mergeObject(m, a, b) ==
  IF SeenHas(m, a) THEN CutAt(m, a, b)
  ELSE LET onlyA == SelectSeq(m.h[a[2]].elems,
                              LAMBDA e : ~HasKey(m.h[b[2]].elems, e[1]))
           m1    == Alloc(Enter(m, a), NewObj("rec", onlyA))
           out   == m1.v[2]
           m2    == mergeObjectLoop(m1, a[2], b[2], out, 1)
       IN Return(Leave(m2, a), Ref(out))

mergeAandB(m, a, b) ==
  IF b = Undef THEN Return(m, a)
  ELSE IF a = b THEN Return(m, a)
  ELSE LET aType == TypeTag(m.h, a)
           bType == TypeTag(m.h, b)
       IN CASE aType = "Array"  /\ bType = "Array"  -> mergeArray(m, a, b)
            [] aType = "Object" /\ bType = "Object" -> mergeObject(m, a, b)
            [] aType = "Set"    /\ bType = "Set"    -> mergeSet(m, a, b)
            [] aType = "Map"    /\ bType = "Map"    -> mergeMap(m, a, b)
            [] OTHER                                -> Return(m, b)

\* merge returning the fold's result without the final clone
merge_NoClone(m, xs) ==
  LET m1 == mergeAandB([m EXCEPT !.mseen = {}, !.path = {}], xs[1], xs[2])
  IN IF Len(xs) > 2
     THEN merge(m1, <<m1.v>> \o SubSeq(xs, 3, Len(xs)))
     ELSE m1

\* merge.js:3-12; xs is the argument list, at least <<a, b>>
merge(m, xs) ==
  LET m1 == mergeAandB([m EXCEPT !.mseen = {}, !.path = {}], xs[1], xs[2])
  IN IF Len(xs) > 2
     THEN merge(m1, <<m1.v>> \o SubSeq(xs, 3, Len(xs)))
     ELSE clone(m1, m1.v, [imm |-> TRUE, enum |-> TRUE], <<>>)


(***************************************************************************)
(* Deep intersect: src/freeze.js, lines 56-195.                            *)
(***************************************************************************)
RECURSIVE intersectAandB(_, _, _)
RECURSIVE intersectArray(_, _, _)
RECURSIVE intersectArrayLoop(_, _, _, _, _)
RECURSIVE intersectObject(_, _, _)
RECURSIVE intersectObjectLoop(_, _, _, _, _, _)
RECURSIVE intersect(_, _)

\* the class CircularReferenceError, stored in the memo while a pair is
\* being computed
Sentinel == <<"s", 0>>

MemoHas(m, a, b) == \E t \in m.iseen : t[1] = a /\ t[2] = b

MemoGet(m, a, b) == (CHOOSE t \in m.iseen : t[1] = a /\ t[2] = b)[3]

MemoSet(m, a, b, x) ==
  [m EXCEPT !.iseen = {t \in @ : ~(t[1] = a /\ t[2] = b)} \cup {<<a, b, x>>}]

\* hasSeen answering "seen" for a pair that is still in progress
hasSeen_NoThrow(m, a, b) ==
  IF MemoHas(m, a, b)
  THEN [m EXCEPT !.flag = TRUE]
  ELSE [MemoSet(m, a, b, Sentinel) EXCEPT !.flag = FALSE]

\* hasSeen taking every pair it has met before for a pair in progress
hasSeen_ThrowsOnSeen(m, a, b) ==
  IF MemoHas(m, a, b)
  THEN Throw(m, "CircularReferenceError")
  ELSE [MemoSet(m, a, b, Sentinel) EXCEPT !.flag = FALSE]

\* freeze.js:164-189
hasSeen(m, a, b) ==
  IF MemoHas(m, a, b)
  THEN IF MemoGet(m, a, b) = Sentinel
       THEN Throw(m, "CircularReferenceError")
       ELSE [m EXCEPT !.flag = TRUE]
  ELSE [MemoSet(m, a, b, Sentinel) EXCEPT !.flag = FALSE]

\* the pairs whose memo entry holds the sentinel
InProgress(m) == {<<t[1], t[2]>> : t \in {u \in m.iseen : u[3] = Sentinel}}

\* the memo agrees with the recursion: the sentinel marks exactly the pairs
\* on the stack, and every finished pair maps to the value its call returned
InStep(m) ==
  /\ InProgress(m) = m.path
  /\ \A f \in m.fin : MemoHas(m, f[1], f[2]) /\ MemoGet(m, f[1], f[2]) = f[3]

\* a call for the pair <<a, b>> begins: note whether a call for the same pair
\* is still on the recursion stack ("reenter"), whether one has returned
\* before ("again", and whether hasSeen then answers with the value that
\* call returned), and whether the memo disagrees with the recursion
Begin(m, a, b) ==
  LET seen    == hasSeen(m, a, b)
      reenter == IF <<a, b>> \in m.path THEN {<<"reenter", a, b, TRUE>>} ELSE {}
      again   == {<<"again", a, b,
                    ~Failed(seen) /\ seen.flag /\ MemoGet(seen, a, b) = f[3]>> :
                    f \in {g \in m.fin : g[1] = a /\ g[2] = b}}
      drift   == IF InStep(m) THEN {} ELSE {<<"drift", a, b, FALSE>>}
  IN [m EXCEPT !.log = @ \cup reenter \cup again \cup drift]

Push(m, a, b) == [m EXCEPT !.path = @ \cup {<<a, b>>}]

\* the call for the pair <<a, b>> returns out
Pop(m, a, b, out) ==
  LET m1 == [m EXCEPT !.path = @ \ {<<a, b>>},
                      !.fin = {f \in @ : ~(f[1] = a /\ f[2] = b)} \cup {<<a, b, out>>}]
  IN IF InStep(m1) THEN m1
     ELSE [m1 EXCEPT !.log = @ \cup {<<"drift", a, b, FALSE>>}]

\* the descriptor of a property that is absent
NoDesc == AccDesc(Undef, Undef, FALSE, FALSE)

\* the properties every record inherits: Object.prototype, reduced to toString
ObjectPrototype == <<<<"toString", DataDesc(Fn(0), TRUE, FALSE, TRUE)>>>>

\* freeze.js:134, key in b: an own or an inherited property
In(h, id, key) == HasKey(h[id].elems, key) \/ HasKey(ObjectPrototype, key)

\* a[key] on a record: an accessor property runs its getter, which returns
\* the primitive numbered like the function
GetterResult(g) == IF g = Undef THEN Undef ELSE Prim(g[2])

Get(m, id, key) ==
  IF ~HasKey(m.h[id].elems, key)
  THEN Return(m, IF HasKey(ObjectPrototype, key)
                 THEN Lookup(ObjectPrototype, key).value ELSE Undef)
  ELSE LET dsc == Lookup(m.h[id].elems, key)
       IN IF dsc.data THEN Return(m, dsc.value)
          ELSE IF dsc.get = Undef THEN Return(m, Undef)
          ELSE Return([m EXCEPT !.calls = @ + 1], GetterResult(dsc.get))

\* b.includes(value) answering false for every container
Includes_PrimitivesOnly(es, value) == ~IsRef(value) /\ Contains(es, value)

\* freeze.js:106, b.includes(value)
Includes(es, value) == Contains(es, value)

\* freeze.js:150-156, the descriptor of an intersected property
intersectDescriptor(value, descriptorA, descriptorB) ==
  DataDesc(value,
           descriptorA.w /\ descriptorB.w,
           descriptorA.e /\ descriptorB.e,
           descriptorA.c /\ descriptorB.c)

\* freeze.js:104-116; acc holds the values kept so far
intersectArrayLoop(m, a, b, acc, i) ==
  IF Failed(m) THEN m
  ELSE IF i > Len(m.h[a].elems) THEN [m EXCEPT !.vs = acc]
  ELSE LET value == m.h[a].elems[i]
           bi    == IF i <= Len(m.h[b].elems) THEN m.h[b].elems[i] ELSE Undef
       IN IF Includes(m.h[b].elems, value)
          THEN intersectArrayLoop(m, a, b,
                 IF value # Undef THEN Append(acc, value) ELSE acc, i + 1)
          ELSE IF IsRef(value)
          THEN LET m1 == intersectAandB(m, value, bi)
               IN IF Failed(m1) THEN m1
                  ELSE intersectArrayLoop(m1, a, b,
                         IF m1.v # Undef THEN Append(acc, m1.v) ELSE acc, i + 1)
          ELSE intersectArrayLoop(m, a, b, acc, i + 1)

intersectArray(m, a, b) ==
  LET m0 == hasSeen(Begin(m, a[2], b[2]), a[2], b[2])
  IN IF Failed(m0) THEN m0
     ELSE IF m0.flag THEN Return(m0, MemoGet(m0, a[2], b[2]))
     ELSE LET m1 == intersectArrayLoop(Push(m0, a[2], b[2]), a[2], b[2], <<>>, 1)
          IN IF Failed(m1) THEN m1
             ELSE LET m2 == Alloc(m1, NewObj("arr", m1.vs))
                  IN Return(Pop(MemoSet(m2, a[2], b[2], m2.v), a[2], b[2], m2.v), m2.v)

\* freeze.js:132-157; keys is Object.getOwnPropertyNames(a)
intersectObjectLoop(m, a, b, out, keys, i) ==
  IF Failed(m) \/ i > Len(keys) THEN m
  ELSE LET key == keys[i]
       IN IF ~In(m.h, b, key)
          THEN intersectObjectLoop(m, a, b, out, keys, i + 1)
          ELSE LET m1 == Get(m, a, key)
                   m2 == Get(m1, b, key)
                   m3 == intersectAandB(m2, m1.v, m2.v)
               IN IF Failed(m3) THEN m3
                  ELSE IF m3.v = Undef
                  THEN intersectObjectLoop(m3, a, b, out, keys, i + 1)
                  ELSE LET descriptorA == Lookup(m3.h[a].elems, key)
                           ownB == HasKey(m3.h[b].elems, key)
                           descriptorB == IF ownB THEN Lookup(m3.h[b].elems, key)
                                          ELSE NoDesc
                           m4 == DefineProperty(m3, out, key,
                                   intersectDescriptor(m3.v, descriptorA, descriptorB))
                       IN \* b has no own descriptor: reading a flag of it throws,
                          \* unless each && stops at a false flag of descriptorA
                          IF ~ownB /\ (descriptorA.c \/ descriptorA.e \/ descriptorA.w)
                          THEN Throw(m3, "TypeError")
                          ELSE intersectObjectLoop(m4, a, b, out, keys, i + 1)

\* intersectObject returning its output without recording it in the memo
intersectObject_KeepsSentinel(m, a, b) ==
  LET m0 == hasSeen(Begin(m, a[2], b[2]), a[2], b[2])
  IN IF Failed(m0) THEN m0
     ELSE IF m0.flag THEN Return(m0, MemoGet(m0, a[2], b[2]))
     ELSE LET m1   == Alloc(Push(m0, a[2], b[2]), NewObj("rec", <<>>))
              out  == m1.v[2]
              keys == [i \in 1..Len(m1.h[a[2]].elems) |-> m1.h[a[2]].elems[i][1]]
              m2   == intersectObjectLoop(m1, a[2], b[2], out, keys, 1)
          IN IF Failed(m2) THEN m2
             ELSE Return(Pop(m2, a[2], b[2], Ref(out)), Ref(out))

\* freeze.js:123-162
intersectObject(m, a, b) ==
  LET m0 == hasSeen(Begin(m, a[2], b[2]), a[2], b[2])
  IN IF Failed(m0) THEN m0
     ELSE IF m0.flag THEN Return(m0, MemoGet(m0, a[2], b[2]))
     ELSE LET m1   == Alloc(Push(m0, a[2], b[2]), NewObj("rec", <<>>))
              out  == m1.v[2]
              keys == [i \in 1..Len(m1.h[a[2]].elems) |-> m1.h[a[2]].elems[i][1]]
              m2   == intersectObjectLoop(m1, a[2], b[2], out, keys, 1)
          IN IF Failed(m2) THEN m2
             ELSE Return(Pop(MemoSet(m2, a[2], b[2], Ref(out)), a[2], b[2], Ref(out)), Ref(out))

\* intersectAandB with the fill-in rule of merge and assign
intersectAandB_FillIn(m, a, b) ==
  IF b = Undef \/ a = b THEN Return(m, a)
  ELSE LET aType == TypeTag(m.h, a)
           bType == TypeTag(m.h, b)
       IN IF aType # bType THEN Return(m, Undef)
          ELSE IF aType = "Array" THEN intersectArray(m, a, b)
          ELSE IF aType = "Object" THEN intersectObject(m, a, b)
          ELSE Return(m, Undef)

\* freeze.js:67-94
intersectAandB(m, a, b) ==
  IF a = b THEN Return(m, a)
  ELSE LET aType == TypeTag(m.h, a)
           bType == TypeTag(m.h, b)
       IN IF aType # bType THEN Return(m, Undef)
          ELSE IF aType = "Array" THEN intersectArray(m, a, b)
          ELSE IF aType = "Object" THEN intersectObject(m, a, b)
          ELSE Return(m, Undef)

\* freeze.js:56-65; xs is the argument list, at least <<a, b>>
intersect(m, xs) ==
  LET m1 == intersectAandB([m EXCEPT !.iseen = {}, !.path = {}, !.fin = {}], xs[1], xs[2])
  IN IF Failed(m1) THEN m1
     ELSE IF Len(xs) > 2
     THEN intersect(m1, <<m1.v>> \o SubSeq(xs, 3, Len(xs)))
     ELSE m1


(***************************************************************************)
(* Deep assign: src/assign.js, lines 92-251.  The engine keeps no visited  *)
(* table; n counts the nested calls, and a call nested deeper than         *)
(* StackLimit exhausts the call stack (RangeError).                        *)
(***************************************************************************)
RECURSIVE assignB2A(_, _, _, _)
RECURSIVE assignMap(_, _, _, _)
RECURSIVE assignMapLoop(_, _, _, _, _)
RECURSIVE assignObject(_, _, _, _)
RECURSIVE assignObjectLoop(_, _, _, _, _, _)
RECURSIVE assignPropertyDescriptor(_, _, _, _, _, _)
RECURSIVE assignLoop(_, _, _, _)


\* assignArray pushing b's elements after a's without removing repetitions
assignArray_Appends(m, a, b) ==
  LET o      == m.h[a[2]]
      values == o.elems \o m.h[b[2]].elems
  IN IF o.lvl > 0 THEN Throw(m, "TypeError")
     ELSE Return([m EXCEPT !.h[a[2]].elems = values], a)

\* assign.js:137-143: a.length = 0, then a.push(...values)
assignArray(m, a, b) ==
  LET o      == m.h[a[2]]
      values == Dedup(o.elems \o m.h[b[2]].elems)
  IN IF o.lvl = 3 THEN Throw(m, "TypeError")
     ELSE IF o.lvl = 2 /\ Len(o.elems) > 0 THEN Throw(m, "TypeError")
     ELSE IF o.lvl > 0 /\ Len(values) > 0
     THEN Throw([m EXCEPT !.h[a[2]].elems = <<>>], "TypeError")
     ELSE Return([m EXCEPT !.h[a[2]].elems = values], a)

\* assign.js:145-152
assignSet(m, a, b) ==
  Return([m EXCEPT !.h[a[2]].elems = Dedup(@ \o m.h[b[2]].elems)], a)

assignMapLoop(m, a, b, i, n) ==
  IF Failed(m) \/ i > Len(m.h[b].elems) THEN m
  ELSE LET k == m.h[b].elems[i][1]
           v == m.h[b].elems[i][2]
       IN IF HasKey(m.h[a].elems, k)
          THEN LET m1 == assignB2A(m, Lookup(m.h[a].elems, k), v, n + 1)
               IN IF Failed(m1) THEN m1
                  ELSE assignMapLoop([m1 EXCEPT !.h[a].elems = Store(@, k, m1.v)],
                                     a, b, i + 1, n)
          ELSE assignMapLoop([m EXCEPT !.h[a].elems = Store(@, k, v)], a, b, i + 1, n)

\* assign.js:154-168
assignMap(m, a, b, n) ==
  LET m1 == assignMapLoop(m, a[2], b[2], 1, n)
  IN IF Failed(m1) THEN m1 ELSE Return(m1, a)

\* assignPropertyDescriptor reading a[key] instead of a's descriptor
assignPropertyDescriptor_ReadsA(m, a, da, db, key, n) ==
  IF ~db.data
  THEN DefineProperty(m, a, key, db)
  ELSE LET m0 == Get(m, a, key)
           m1 == assignB2A(m0, m0.v, db.value, n + 1)
       IN IF Failed(m1) THEN m1
          ELSE DefineProperty(m1, a, key, [db EXCEPT !.value = m1.v])

\* assignPropertyDescriptor keeping the flags of a's data property
assignPropertyDescriptor_FlagsOfA(m, a, da, db, key, n) ==
  IF ~db.data
  THEN DefineProperty(m, a, key, db)
  ELSE LET aValue == IF da.data THEN da.value ELSE Undef
           m1     == assignB2A(m, aValue, db.value, n + 1)
       IN IF Failed(m1) THEN m1
          ELSE DefineProperty(m1, a, key,
                 [(IF da.data THEN da ELSE db) EXCEPT !.value = m1.v])

\* assignPropertyDescriptor filling the empty slots of b's accessor from a's
assignPropertyDescriptor_CombinesAccessors(m, a, da, db, key, n) ==
  IF ~db.data
  THEN DefineProperty(m, a, key,
         IF da.data THEN db
         ELSE [db EXCEPT !.get = IF @ # Undef THEN @ ELSE da.get,
                         !.set = IF @ # Undef THEN @ ELSE da.set])
  ELSE LET aValue == IF da.data THEN da.value ELSE Undef
           m1     == assignB2A(m, aValue, db.value, n + 1)
       IN IF Failed(m1) THEN m1
          ELSE DefineProperty(m1, a, key, [db EXCEPT !.value = m1.v])

\* assign.js:237-251; da is NoDesc when a has no such property
assignPropertyDescriptor(m, a, da, db, key, n) ==
  IF ~db.data
  THEN DefineProperty(m, a, key, db)
  ELSE LET aValue == IF da.data THEN da.value ELSE Undef
           m1     == assignB2A(m, aValue, db.value, n + 1)
       IN IF Failed(m1) THEN m1
          ELSE DefineProperty(m1, a, key, [db EXCEPT !.value = m1.v])

\* assignObjectLoop redefining every property a holds, configurable or not
assignObjectLoop_Redefines(m, a, b, keys, i, n) ==
  IF Failed(m) \/ i > Len(keys) THEN m
  ELSE LET key  == keys[i]
           hasA == HasKey(m.h[a].elems, key)
           da   == IF hasA THEN Lookup(m.h[a].elems, key) ELSE NoDesc
           db   == Lookup(m.h[b].elems, key)
           m1   ==
             IF hasA /\ da.data /\ db.data
                /\ TypeTag(m.h, da.value) = "Object"
                /\ TypeTag(m.h, db.value) = "Object"
             THEN assignObject(m, da.value, db.value, n + 1)
             ELSE assignPropertyDescriptor(m, a, da, db, key, n)
       IN assignObjectLoop(m1, a, b, keys, i + 1, n)

\* assignObjectLoop writing b's flags with the value of a writable property
assignObjectLoop_FlagsOfB(m, a, b, keys, i, n) ==
  IF Failed(m) \/ i > Len(keys) THEN m
  ELSE LET key  == keys[i]
           hasA == HasKey(m.h[a].elems, key)
           da   == IF hasA THEN Lookup(m.h[a].elems, key) ELSE NoDesc
           db   == Lookup(m.h[b].elems, key)
           m1   ==
             IF hasA /\ da.data /\ db.data
                /\ TypeTag(m.h, da.value) = "Object"
                /\ TypeTag(m.h, db.value) = "Object"
             THEN assignObject(m, da.value, db.value, n + 1)
             ELSE IF hasA
             THEN IF da.c
                  THEN assignPropertyDescriptor(m, a, da, db, key, n)
                  ELSE IF da.data /\ da.w
                  THEN LET m2 == assignB2A(m, da.value,
                                           IF db.data THEN db.value ELSE Undef, n + 1)
                       IN IF Failed(m2) THEN m2
                          ELSE DefineProperty(m2, a, key,
                                 [(IF db.data THEN db ELSE da) EXCEPT !.value = m2.v])
                  ELSE m
             ELSE assignPropertyDescriptor(m, a, NoDesc, db, key, n)
       IN assignObjectLoop(m1, a, b, keys, i + 1, n)

\* assign.js:183-232; keys is Reflect.ownKeys(b)
assignObjectLoop(m, a, b, keys, i, n) ==
  IF Failed(m) \/ i > Len(keys) THEN m
  ELSE LET key  == keys[i]
           hasA == HasKey(m.h[a].elems, key)
           da   == IF hasA THEN Lookup(m.h[a].elems, key) ELSE NoDesc
           db   == Lookup(m.h[b].elems, key)
           m1   ==
             IF hasA /\ da.data /\ db.data
                /\ TypeTag(m.h, da.value) = "Object"
                /\ TypeTag(m.h, db.value) = "Object"
             THEN assignObject(m, da.value, db.value, n + 1)
             ELSE IF hasA
             THEN IF da.c
                  THEN assignPropertyDescriptor(m, a, da, db, key, n)
                  ELSE IF da.data /\ da.w
                  THEN LET m2 == assignB2A(m, da.value,
                                           IF db.data THEN db.value ELSE Undef, n + 1)
                       IN IF Failed(m2) THEN m2
                          ELSE DefineProperty(m2, a, key, [da EXCEPT !.value = m2.v])
                  ELSE m
             ELSE assignPropertyDescriptor(m, a, NoDesc, db, key, n)
       IN assignObjectLoop(m1, a, b, keys, i + 1, n)

\* assign.js:181-235
assignObject(m, a, b, n) ==
  IF n > StackLimit THEN Throw(m, "RangeError")
  ELSE LET keys == [i \in 1..Len(m.h[b[2]].elems) |-> m.h[b[2]].elems[i][1]]
           m1   == assignObjectLoop(m, a[2], b[2], keys, 1, n)
       IN IF Failed(m1) THEN m1 ELSE Return(m1, a)

\* assign.js:98-135
assignB2A(m, a, b, n) ==
  IF n > StackLimit THEN Throw(m, "RangeError")
  ELSE IF b = Undef THEN Return(m, a)
  ELSE IF a = b THEN Return(m, a)
  ELSE LET aType == TypeTag(m.h, a)
           bType == TypeTag(m.h, b)
       IN CASE aType = "Array"  /\ bType = "Array"  -> assignArray(m, a, b)
            [] aType = "Object" /\ bType = "Object" -> assignObject(m, a, b, n)
            [] aType = "Set"    /\ bType = "Set"    -> assignSet(m, a, b)
            [] aType = "Map"    /\ bType = "Map"    -> assignMap(m, a, b, n)
            [] OTHER                                -> Return(m, b)

\* assign.js:94, b.forEach((b) => assignB2A(a, b))
assignLoop(m, a, bs, i) ==
  IF Failed(m) \/ i > Len(bs) THEN m
  ELSE assignLoop(assignB2A(m, a, bs[i], 1), a, bs, i + 1)

\* assign returning what its last binary step returned
assign_ReturnsStep(m, xs) ==
  assignLoop(m, xs[1], SubSeq(xs, 2, Len(xs)), 1)

\* assign.js:92-96; xs is the argument list <<a, b, ...>>
assign(m, xs) ==
  LET m1 == assignLoop(m, xs[1], SubSeq(xs, 2, Len(xs)), 1)
  IN IF Failed(m1) THEN m1 ELSE Return(m1, xs[1])


(***************************************************************************)
(* Inputs.  Objects 1 and 2 are the two operands a and b; objects 3 and 4  *)
(* are containers nested in them.                                          *)
(***************************************************************************)
A == Ref(1)

B == Ref(2)

Plain(v) == DataDesc(v, TRUE, TRUE, TRUE)

\* all sequences over S of length at most n
SeqsUpTo(S, n) == UNION {[1..k -> S] : k \in 0..n}

NoRepeat(s) == \A i, j \in 1..Len(s) : i # j => s[i] # s[j]

Child3 == NewObj("rec", <<<<"k1", Plain(Prim(1))>>>>)

Child4 == NewObj("rec", <<<<"k1", Plain(Prim(1))>>, <<"k2", Plain(Prim(2))>>>>)

\* two sequences (or two sets) of primitives, undefined and records
SeqHeaps ==
  LET elemsA == {Prim(1), Prim(2), Undef, Ref(3)}
      elemsB == {Prim(1), Prim(2), Undef, Ref(3), Ref(4)}
  IN {<<NewObj(t[1], t[2]), NewObj(t[1], t[3]), Child3, Child4>> :
        t \in {u \in {"arr", "set"} \X SeqsUpTo(elemsA, MaxLen) \X SeqsUpTo(elemsB, MaxLen) :
                 u[1] = "set" => NoRepeat(u[2]) /\ NoRepeat(u[3])}}

\* two records that hold (or lack) property k1 in every shape and with every
\* combination of flags, and one property each that the other lacks
DataDescs(vals) ==
  {DataDesc(v, w, e, c) : <<v, w, e, c>> \in vals \X BOOLEAN \X BOOLEAN \X BOOLEAN}

AccDescs(gets, sets) ==
  {AccDesc(g, st, e, c) : <<g, st, e, c>> \in gets \X sets \X BOOLEAN \X BOOLEAN}

WithK1(ds, rest) == {<<>> \o rest} \cup {<<<<"k1", d>>>> \o rest : d \in ds}

DescHeaps ==
  LET descsA == DataDescs({Prim(1), Undef, Ref(3)}) \cup AccDescs({Fn(1), Undef}, {Fn(2), Undef})
      descsB == DataDescs({Prim(1), Prim(2), Undef, Ref(4)})
                  \cup AccDescs({Fn(3), Undef}, {Fn(4), Undef})
  IN {<<NewObj("rec", t[1]), NewObj("rec", t[2]), Child3, Child4>> :
        t \in WithK1(descsA, <<<<"ka", Plain(Prim(1))>>>>)
                 \X WithK1(descsB, <<<<"kb", Plain(Prim(2))>>>>)}

\* records whose own key toString meets the inherited toString of the other
ProtoHeaps ==
  LET own == DataDescs({Fn(0), Prim(1)})
  IN {<<NewObj("rec", <<<<"toString", t[1]>>, <<"k1", Plain(Prim(1))>>>>),
        NewObj("rec", t[2] \o <<<<"k1", Plain(Prim(1))>>>>),
        Child3, Child4>> :
        t \in own \X ({<<>>} \cup {<<<<"toString", d>>>> : d \in own})}

\* two graphs of two containers each, of one kind, with self-references,
\* references to the parent and shared references.  None marks an empty slot.
None == <<"n", 0>>

\* the container of kind k whose two slots hold s1 and s2
Container(k, s1, s2) ==
  LET present == SelectSeq(<<<<1, s1>>, <<2, s2>>>>, LAMBDA e : e[2] # None)
  IN NewObj(k,
       [i \in 1..Len(present) |->
          CASE k = "rec" -> <<IF present[i][1] = 1 THEN "k1" ELSE "k2", Plain(present[i][2])>>
            [] k = "map" -> <<Prim(present[i][1]), present[i][2]>>
            [] OTHER     -> present[i][2]])

GraphHeaps ==
  LET rootA  == {None, Prim(1), Ref(1), Ref(3)}
      rootB  == {None, Prim(2), Ref(2), Ref(4)}
      childA == {None, Ref(1), Ref(3)}
      childB == {None, Ref(2), Ref(4)}
  IN {<<Container(t[1], t[2], t[3]), Container(t[1], t[4], t[5]),
        Container(t[1], Prim(1), t[6]), Container(t[1], t[7], Prim(2))>> :
        t \in {"rec", "map", "arr"} \X rootA \X rootA \X rootB \X rootB \X childA \X childB}

\* a target that lacks the first slot or holds a primitive or a container
\* under it, and two sources that each hold a container under that slot
AdoptHeaps ==
  {<<Container(t[1], t[2], None), Container(t[1], Ref(3), None),
     Container(t[3], Prim(1), None), Container(t[1], Ref(5), None),
     Container(t[4], None, Prim(2))>> :
     t \in {"rec", "map"} \X {None, Prim(1), Ref(5)}
             \X {"rec", "map", "arr", "set"} \X {"rec", "map", "arr", "set"}}

\* records and sequences that were made non-extensible, sealed or frozen
Hardened(o, lvl) ==
  CASE lvl = 0 -> o
    [] lvl = 1 -> PreventedObj(o)
    [] lvl = 2 -> SealedObj(o)
    [] OTHER   -> FrozenObj(o)

HardHeaps ==
  {<<Hardened(Container(t[1], Prim(1), t[2]), t[3]),
     Container(t[1], Prim(2), Prim(2)),
     Hardened(Container(t[1], Prim(1), t[4]), t[5]),
     Child4>> :
     t \in {"rec", "arr"} \X {None, Ref(1), Ref(3)} \X (1..3)
             \X {None, Ref(1), Ref(3)} \X {0, 3}}

\* a record that holds an object of a class the library has no case for
\* (an Error, say), which in turn holds a primitive, the record or a plain
\* record
OtherHeaps ==
  {<<Container("rec", Ref(3), t[1]), Container("rec", Ref(4), Prim(2)),
     NewObj("oth", <<<<"k1", Plain(t[2])>>>>), Child4>> :
     t \in {None, Ref(3), Ref(4)} \X {Prim(1), Ref(1), Ref(4)}}

Options == [imm : BOOLEAN, enum : BOOLEAN]

DefaultOptions == [imm |-> FALSE, enum |-> TRUE]

Init ==
  /\ heap0 \in SeqHeaps \cup DescHeaps \cup ProtoHeaps \cup GraphHeaps \cup AdoptHeaps
              \cup HardHeaps \cup OtherHeaps
  /\ heap = heap0
  /\ op = "none"
  /\ args = <<>>
  /\ opts = DefaultOptions
  /\ ret = Undef
  /\ err = "none"
  /\ calls = 0
  /\ trace = {}
  /\ cmemo = {}
  /\ imemo = {}
  /\ prev = Undef
  /\ pc = "ready"

\* the state after a call that ended in machine state m
Finish(name, xs, o, m) ==
  /\ heap' = m.h
  /\ op' = name
  /\ args' = xs
  /\ opts' = o
  /\ ret' = m.v
  /\ err' = m.err
  /\ calls' = m.calls
  /\ trace' = m.log
  /\ cmemo' = m.cseen
  /\ imemo' = m.iseen
  /\ pc' = "done"
  /\ UNCHANGED <<heap0, prev>>

MergeArgs == {<<A, B>>, <<A, Undef>>, <<A, A>>, <<A, B, Ref(3)>>}

Merge ==
  /\ pc = "ready"
  /\ \E xs \in MergeArgs : Finish("merge", xs, DefaultOptions, merge(Machine(heap), xs))

Clone ==
  /\ pc = "ready"
  /\ \E o \in Options : Finish("clone", <<A>>, o, clone(Machine(heap), A, o, <<>>))

\* a second clone(a, options) after the first: with the options object the
\* first call was given, which now carries that call's fallback closure, or
\* with a new options object holding the same two flags
CloneAgain ==
  /\ pc = "done"
  /\ op = "clone"
  /\ \E fallback \in {<<>>, <<cmemo>>} :
       LET m == clone(Machine(heap), A, opts, fallback)
       IN /\ heap' = m.h
          /\ ret' = m.v
          /\ err' = m.err
          /\ calls' = m.calls
          /\ cmemo' = m.cseen
          /\ prev' = IF err = "none" THEN ret ELSE Undef
          /\ pc' = "again"
          /\ UNCHANGED <<heap0, op, args, opts, trace, imemo>>

IntersectArgs == {<<A, B>>, <<A, Undef>>, <<A, A>>, <<A, B, Ref(3)>>}

Intersect ==
  /\ pc = "ready"
  /\ \E xs \in IntersectArgs :
       Finish("intersect", xs, DefaultOptions, intersect(Machine(heap), xs))

AssignArgs == {<<A, B>>, <<A, Undef>>, <<A, B, Ref(4)>>}

Assign ==
  /\ pc = "ready"
  /\ \E xs \in AssignArgs :
       Finish("assign", xs, DefaultOptions, assign(Machine(heap), xs))

Next == Merge \/ Intersect \/ Assign \/ Clone \/ CloneAgain

Spec == Init /\ [][Next]_vars


(***************************************************************************)
(* Properties.                                                             *)
(***************************************************************************)
Done(name) == pc = "done" /\ op = name

Returned(name) == Done(name) /\ err = "none"

IsKind(h, v, k) == IsRef(v) /\ h[v[2]].kind = k

InputIds == 1..Len(heap0)

\* the duplicate clone made of value v: v itself unless v is a container
Dup(v) ==
  IF IsRef(v) /\ (\E p \in cmemo : p[1] = v[2])
  THEN Ref((CHOOSE p \in cmemo : p[1] = v[2])[2])
  ELSE v

\* first position of x in the sequence s, mapped by Dup
FirstAt(s, x) == CHOOSE i \in 1..Len(s) :
                   /\ Dup(s[i]) = x
                   /\ \A j \in 1..(i - 1) : Dup(s[j]) # x

\* r holds each distinct value of s once, in the order of first occurrence
FirstOccurrences(s, r) ==
  /\ NoRepeat(r)
  /\ \A i \in 1..Len(s) : \E j \in 1..Len(r) : r[j] = Dup(s[i])
  /\ \A j \in 1..Len(r) : \E i \in 1..Len(s) : r[j] = Dup(s[i])
  /\ \A j1, j2 \in 1..Len(r) : j1 < j2 => FirstAt(s, r[j1]) < FirstAt(s, r[j2])

MergedSequence(xs) ==
  /\ IsKind(heap, ret, "arr")
  /\ FirstOccurrences(heap0[xs[1][2]].elems \o heap0[xs[2][2]].elems, heap[ret[2]].elems)

\* C1 as stated: for any two sequences a and b, merge(a, b) holds every
\* distinct value of a followed by b exactly once, at the position of its first
\* occurrence; merge(a, a) of a sequence with a repeated value refutes it.
C1_AnyTwoSequences ==
  (Returned("merge") /\ Len(args) = 2 /\ IsKind(heap0, args[1], "arr")
     /\ IsKind(heap0, args[2], "arr"))
    => MergedSequence(args)

\* C1, amended: for two distinct sequence objects a and b, merge(a, b) holds
\* every distinct value of a followed by b exactly once, at the position of
\* its first occurrence (containers by identity, as their duplicates).
C1_DistinctSequences ==
  (Returned("merge") /\ Len(args) = 2 /\ args[1] # args[2]
     /\ IsKind(heap0, args[1], "arr") /\ IsKind(heap0, args[2], "arr"))
    => MergedSequence(args)

\* a merge of two distinct sequences that removed a repeated value
C1_Witness ==
  /\ Returned("merge") /\ args = <<A, B>>
  /\ IsKind(heap0, A, "arr") /\ IsKind(heap0, B, "arr")
  /\ Len(heap[ret[2]].elems) < Len(heap0[1].elems) + Len(heap0[2].elems)
  /\ Len(heap[ret[2]].elems) > 1
  /\ \E i \in 1..Len(heap0[1].elems) : IsRef(heap0[1].elems[i])

\* the value merge holds for a property both records hold as data: b's value
\* (its duplicate) unless b's is undefined or the two are containers of one
\* kind, which merge to a new container of that kind
MergedValue(x, da, db) ==
  IF db.value = Undef \/ da.value = db.value THEN x = Dup(da.value)
  ELSE IF \E k \in {"arr", "rec", "set", "map"} :
            IsKind(heap0, da.value, k) /\ IsKind(heap0, db.value, k)
  THEN IsRef(x) /\ x[2] \notin InputIds /\ heap[x[2]].kind = heap0[db.value[2]].kind
  ELSE x = Dup(db.value)

\* C2: a property that records a and b both hold as data is a data property of
\* merge(a, b), its value the merge of the two values and each of writable,
\* enumerable, configurable the conjunction of the two inputs' flags.
C2_DataDescriptors ==
  (Returned("merge") /\ args = <<A, B>> /\ IsKind(heap0, A, "rec") /\ IsKind(heap0, B, "rec"))
    => \A i \in 1..Len(heap0[1].elems) :
         LET k  == heap0[1].elems[i][1]
             da == heap0[1].elems[i][2]
         IN (HasKey(heap0[2].elems, k) /\ da.data /\ Lookup(heap0[2].elems, k).data)
              => LET db == Lookup(heap0[2].elems, k)
                     d  == Lookup(heap[ret[2]].elems, k)
                 IN /\ HasKey(heap[ret[2]].elems, k)
                    /\ d.data
                    /\ d.w = (da.w /\ db.w)
                    /\ d.e = (da.e /\ db.e)
                    /\ d.c = (da.c /\ db.c)
                    /\ MergedValue(d.value, da, db)

\* a merge whose result is read-only and non-configurable because one input
\* each was
C2_Witness ==
  /\ Returned("merge") /\ args = <<A, B>>
  /\ IsKind(heap0, A, "rec") /\ IsKind(heap0, B, "rec")
  /\ HasKey(heap0[1].elems, "k1") /\ HasKey(heap0[2].elems, "k1")
  /\ LET da == Lookup(heap0[1].elems, "k1")
         db == Lookup(heap0[2].elems, "k1")
         d  == Lookup(heap[ret[2]].elems, "k1")
     IN /\ da.data /\ db.data
        /\ da.w /\ ~db.w /\ ~da.c /\ db.c /\ da.e /\ db.e
        /\ da.value = Prim(1) /\ db.value = Prim(2)
        /\ d = DataDesc(Prim(2), FALSE, TRUE, FALSE)


\* C3 as stated: merge yields the right-hand value unmerged for a record or
\* map position only when the left-hand container is an ancestor on the
\* current recursion path; a left-hand container shared by two positions is
\* merged at both.
C3_CutOnlyAtAncestor ==
  Done("merge") => \A e \in trace : e[1] = "cut" => e[4]

\* the containers an object refers to
RefsOf(o) ==
  CASE o.kind \in {"arr", "set"} ->
         {o.elems[i][2] : i \in {j \in 1..Len(o.elems) : IsRef(o.elems[j])}}
    [] o.kind = "map" ->
         {o.elems[i][1][2] : i \in {j \in 1..Len(o.elems) : IsRef(o.elems[j][1])}}
           \cup {o.elems[i][2][2] : i \in {j \in 1..Len(o.elems) : IsRef(o.elems[j][2])}}
    [] OTHER ->
         {o.elems[i][2].value[2] :
            i \in {j \in 1..Len(o.elems) : o.elems[j][2].data /\ IsRef(o.elems[j][2].value)}}

RECURSIVE Reach(_, _)
\* the containers reachable in heap h from the containers ids
Reach(h, ids) ==
  LET more == ids \cup UNION {RefsOf(h[i]) : i \in ids}
  IN IF more = ids THEN ids ELSE Reach(h, more)

IdsOf(vs) == {vs[i][2] : i \in {j \in 1..Len(vs) : IsRef(vs[j])}}

\* object o with every reference replaced by the reference to its duplicate
DupObj(o) ==
  [kind |-> o.kind,
   elems |-> [i \in 1..Len(o.elems) |->
                CASE o.kind \in {"arr", "set"} -> Dup(o.elems[i])
                  [] o.kind = "map" -> <<Dup(o.elems[i][1]), Dup(o.elems[i][2])>>
                  [] OTHER -> <<o.elems[i][1],
                                [o.elems[i][2] EXCEPT !.value = Dup(@)]>>]]

SameContent(o, x) == o.kind = x.kind /\ o.elems = x.elems

\* C4: no container reachable from the value merge returns is a container that
\* existed before the call; merge(a, undefined) and merge(a, a) return a
\* structure equal to a made of new containers only.
C4_NoSharedContainer ==
  Returned("merge") =>
    /\ Reach(heap, IdsOf(<<ret>>)) \cap InputIds = {}
    /\ IsRef(ret) = IsRef(args[1])
    /\ (Len(args) = 2 /\ args[2] \in {Undef, args[1]}) =>
         /\ ret = Dup(args[1])
         /\ \A i \in Reach(heap0, IdsOf(<<args[1]>>)) :
              /\ Dup(Ref(i)) # Ref(i)
              /\ SameContent(heap[Dup(Ref(i))[2]], DupObj(heap0[i]))

\* merge(a, undefined) returned for a record a that refers to itself and to
\* one more container
C4_Witness ==
  /\ Returned("merge") /\ args = <<A, Undef>>
  /\ Reach(heap0, {1}) = {1, 3}
  /\ 1 \in RefsOf(heap0[1])
  /\ ret[2] \in RefsOf(heap[ret[2]])

\* C5: merge leaves every container that existed before the call exactly as
\* it was.
C5_InputsUnchanged ==
  Done("merge") => \A i \in InputIds : heap[i] = heap0[i]

\* a merge of two maps that merged the two maps held under a common key
C5_Witness ==
  /\ Returned("merge") /\ args = <<A, B>>
  /\ IsKind(heap0, A, "map") /\ IsKind(heap0, B, "map")
  /\ \E i \in 1..Len(heap0[1].elems) :
       /\ heap0[1].elems[i][2] = Ref(3)
       /\ HasKey(heap0[2].elems, heap0[1].elems[i][1])
       /\ Lookup(heap0[2].elems, heap0[1].elems[i][1]) = Ref(4)
  /\ Len(heap) > Len(heap0) + 3

\* C6: no call of merge, assign or clone invokes a getter or a setter.
C6_NoAccessorInvoked ==
  (Done("merge") \/ Done("assign") \/ Done("clone")) => calls = 0

\* assign(a, b) returned where a holds k1 as an accessor with a getter and b
\* holds it as data
C6_Witness ==
  /\ Returned("assign") /\ args = <<A, B>>
  /\ IsKind(heap0, A, "rec") /\ IsKind(heap0, B, "rec")
  /\ HasKey(heap0[1].elems, "k1") /\ HasKey(heap0[2].elems, "k1")
  /\ ~Lookup(heap0[1].elems, "k1").data
  /\ Lookup(heap0[1].elems, "k1").get # Undef
  /\ Lookup(heap0[1].elems, "k1").c
  /\ Lookup(heap0[2].elems, "k1").data
  /\ Lookup(heap[1].elems, "k1").data
  /\ calls = 0


\* C7: an intersect call whose recursion re-enters a pair of containers that
\* is still being computed ends with a CircularReferenceError, never with a
\* result.
C7_ReentryThrows ==
  (Done("intersect") /\ \E e \in trace : e[1] = "reenter") =>
    err = "CircularReferenceError"

\* intersect(a, b) re-entered the pair (a, b) itself and threw
C7_Witness ==
  /\ Done("intersect") /\ args = <<A, B>>
  /\ <<"reenter", 1, 2, TRUE>> \in trace
  /\ 1 \in RefsOf(heap0[1]) /\ 2 \in RefsOf(heap0[2])
  /\ err = "CircularReferenceError"

\* what reading key of the input record id yields
Read(id, key) ==
  IF HasKey(heap0[id].elems, key)
  THEN LET dsc == Lookup(heap0[id].elems, key)
       IN IF dsc.data THEN dsc.value ELSE GetterResult(dsc.get)
  ELSE IF HasKey(ObjectPrototype, key) THEN Lookup(ObjectPrototype, key).value
  ELSE Undef

\* the property of the input record id that key names, own or inherited
SourceProperty(id, key) ==
  IF HasKey(heap0[id].elems, key) THEN Lookup(heap0[id].elems, key)
  ELSE Lookup(ObjectPrototype, key)

Composite(v) == TypeTag(heap0, v) \in {"Array", "Object"}

\* two input values intersect to a result that is not absent
NonAbsent(va, vb) ==
  \/ va = vb /\ va # Undef
  \/ va # vb /\ Composite(va) /\ TypeTag(heap0, va) = TypeTag(heap0, vb)

\* r is the intersection of the input values va and vb: the common value, or
\* the new container computed for the pair
IsIntersectionOf(r, va, vb) ==
  IF va = vb THEN r = va
  ELSE /\ IsRef(r) /\ r[2] \notin InputIds
       /\ TypeTag(heap, r) = TypeTag(heap0, va)
       /\ <<va[2], vb[2], r>> \in imemo

\* the record out is the intersection of the input records x and y
RecordIntersection(out, x, y) ==
  /\ \A i \in 1..Len(heap0[x].elems) :
       LET key == heap0[x].elems[i][1]
       IN HasKey(out, key) <=>
            In(heap0, y, key) /\ NonAbsent(Read(x, key), Read(y, key))
  /\ \A i \in 1..Len(out) :
       LET key == out[i][1]
           dsc == out[i][2]
           da  == SourceProperty(x, key)
           db  == SourceProperty(y, key)
       IN /\ HasKey(heap0[x].elems, key)
          /\ dsc.data
          /\ dsc.w = (da.w /\ db.w)
          /\ dsc.e = (da.e /\ db.e)
          /\ dsc.c = (da.c /\ db.c)
          /\ IsIntersectionOf(dsc.value, Read(x, key), Read(y, key))

\* C8 as stated: for distinct records a and b, intersect(a, b) is a new
\* record holding exactly the keys present in both whose values intersect to
\* a result that is not absent, each with that result as value and with
\* writable, enumerable and configurable the AND of the two source flags.
C8_RecordIntersection ==
  (/\ Done("intersect") /\ args = <<A, B>>
   /\ IsKind(heap0, A, "rec") /\ IsKind(heap0, B, "rec")
   /\ err # "CircularReferenceError") =>
    /\ err = "none"
    /\ IsKind(heap, ret, "rec") /\ ret[2] \notin InputIds
    /\ RecordIntersection(heap[ret[2]].elems, 1, 2)

\* the indices of a, in order, that pass the test
KeptIndices(a, Test(_)) == SelectSeq([i \in 1..Len(a) |-> i], Test)

\* a[i] is a container with a counterpart of its own kind at b[i]
HasCounterpart(a, b, i) ==
  /\ IsRef(a[i]) /\ i <= Len(b)
  /\ NonAbsent(a[i], b[i])

\* the sequence r holds, in order, the values the indices kept stand for
HoldsKept(r, a, b, kept, ByMembership(_)) ==
  /\ Len(r) = Len(kept)
  /\ \A j \in 1..Len(kept) :
       IF ByMembership(kept[j]) THEN r[j] = a[kept[j]]
       ELSE IsIntersectionOf(r[j], a[kept[j]], b[kept[j]])

\* intersect(a, b) of two input sequences ended without a circular reference
SequencesIntersected ==
  /\ Done("intersect") /\ args = <<A, B>>
  /\ IsKind(heap0, A, "arr") /\ IsKind(heap0, B, "arr")
  /\ err # "CircularReferenceError"

C10_AssignTerminates ==
  Done("assign") => err # "RangeError"


\* the containers reachable from the sources of the call and not from its
\* first argument, before the call
SourceIds ==
  Reach(heap0, IdsOf(SubSeq(args, 2, Len(args)))) \ Reach(heap0, IdsOf(<<args[1]>>))

\* C11 as stated: after assign(a, b, c, ...) returns, every container
\* reachable from a source holds exactly what it held before the call, also
\* when the target adopted it under a key the target lacked.
C11_SourcesUnchanged ==
  Returned("assign") => \A i \in SourceIds : heap[i] = heap0[i]

\* C12: assign(a, b, ...) returns the reference a it was given, whatever the
\* kinds of its arguments.
C12_ReturnsTarget ==
  Returned("assign") => ret = args[1]

\* assign(a, b, c) returned a for a sequence a and a record c
C12_Witness ==
  /\ Returned("assign") /\ args = <<A, B, Ref(4)>>
  /\ IsKind(heap0, A, "arr") /\ IsKind(heap0, Ref(4), "rec")
  /\ heap[1] # heap0[1]
  /\ ret = A


\* assign(a, b) was called on the two input records
RecordsAssigned ==
  /\ Done("assign") /\ args = <<A, B>>
  /\ IsKind(heap0, A, "rec") /\ IsKind(heap0, B, "rec")

\* assign(a, b) returned, and a was assigned into once: no property of a
\* leads back to a
AssignedOnce ==
  /\ RecordsAssigned /\ err = "none"
  /\ 1 \notin Reach(heap0, RefsOf(heap0[1]))

\* the keys both input records hold
CommonKeys ==
  {heap0[2].elems[i][1] : i \in {j \in 1..Len(heap0[2].elems) :
                                   HasKey(heap0[1].elems, heap0[2].elems[j][1])}}

\* a's property before the call, a's property after it, b's property
Before(key) == Lookup(heap0[1].elems, key)

After(key) == Lookup(heap[1].elems, key)

Given(key) == Lookup(heap0[2].elems, key)

\* both properties are data properties holding plain records
BothRecords(da, db) ==
  /\ da.data /\ db.data
  /\ TypeTag(heap0, da.value) = "Object" /\ TypeTag(heap0, db.value) = "Object"

\* neither configurable nor writable, or a non-configurable accessor
Locked(dsc) == ~dsc.c /\ (~dsc.data \/ ~dsc.w)

\* what the binary step of assign returns for the values va and vb: va when
\* vb is absent or identical, va (assigned into) when both are containers of
\* one kind, else vb
Assigned(va, vb) ==
  IF vb = Undef \/ va = vb THEN va
  ELSE IF /\ TypeTag(heap0, va) = TypeTag(heap0, vb)
          /\ TypeTag(heap0, va) \in {"Array", "Object", "Set", "Map"}
  THEN va
  ELSE vb

\* C13: a property of a that is neither configurable nor writable, or is a
\* non-configurable accessor, is left by assign exactly as it was, and no
\* error is raised when b holds no other kind of key a cannot take.
C13_LockedUntouched ==
  RecordsAssigned =>
    /\ \A key \in CommonKeys : Locked(Before(key)) => After(key) = Before(key)
    /\ ((\E key \in CommonKeys : Locked(Before(key)))
          /\ (heap0[1].lvl = 0
                \/ \A i \in 1..Len(heap0[2].elems) :
                     heap0[2].elems[i][1] \in CommonKeys))
         => err = "none"

\* assign(a, b) returned where a holds k1 as a non-configurable getter and b
\* holds k1 as data
C13_Witness ==
  /\ RecordsAssigned /\ err = "none"
  /\ "k1" \in CommonKeys
  /\ ~Before("k1").data /\ ~Before("k1").c /\ Before("k1").get # Undef
  /\ Given("k1").data /\ Given("k1").value = Prim(2)
  /\ After("k1") = Before("k1")

C15_ConfigurableTakesFlagsOfB ==
  AssignedOnce =>
    \A key \in CommonKeys :
      (/\ Before(key).data /\ Before(key).c /\ Given(key).data
       /\ ~BothRecords(Before(key), Given(key))) =>
        /\ After(key) = DataDesc(Assigned(Before(key).value, Given(key).value),
                                 Given(key).w, Given(key).e, Given(key).c)
        /\ Given(key).value = Undef => After(key).value = Before(key).value

\* a.k1 = 1, configurable and not enumerable, became enumerable with value 2
C15_Witness ==
  /\ RecordsAssigned /\ err = "none"
  /\ "k1" \in CommonKeys
  /\ Before("k1") = DataDesc(Prim(1), TRUE, FALSE, TRUE)
  /\ Given("k1") = DataDesc(Prim(2), TRUE, TRUE, TRUE)
  /\ After("k1") = DataDesc(Prim(2), TRUE, TRUE, TRUE)

\* a configurable property of a meets a property of b
Redefined(key) ==
  /\ key \in CommonKeys /\ Before(key).c
  /\ ~BothRecords(Before(key), Given(key))

\* C16 as stated: a configurable property of a present in b is redefined by
\* the rules of merge: each flag is the AND of a's and b's, two accessors
\* keep a's get or set where b defines none, mixed shapes take b's shape.
C16_RedefinedAsMerge ==
  AssignedOnce =>
    \A key \in CommonKeys :
      Redefined(key) =>
        LET da == Before(key)
            db == Given(key)
        IN /\ After(key).e = (da.e /\ db.e)
           /\ After(key).c = (da.c /\ db.c)
           /\ After(key).data = db.data
           /\ (da.data /\ db.data) => After(key).w = (da.w /\ db.w)
           /\ (~da.data /\ ~db.data) =>
                /\ After(key).get = (IF db.get # Undef THEN db.get ELSE da.get)
                /\ After(key).set = (IF db.set # Undef THEN db.set ELSE da.set)

\* C16: a configurable property of a present in b is redefined with b's
\* descriptor: b's flags, b's get and set (also where b defines none) when b
\* holds an accessor, and the value the binary step yields when b holds data.
C16_RedefinedAsB ==
  AssignedOnce =>
    \A key \in CommonKeys :
      Redefined(key) =>
        LET da == Before(key)
            db == Given(key)
        IN After(key) =
             IF db.data
             THEN [db EXCEPT !.value = Assigned(IF da.data THEN da.value ELSE Undef, @)]
             ELSE db

\* a's getter under k1 was dropped: b's accessor defines a setter only
C16_Witness ==
  /\ RecordsAssigned /\ err = "none"
  /\ Redefined("k1")
  /\ ~Before("k1").data /\ Before("k1").get # Undef
  /\ ~Given("k1").data /\ Given("k1").get = Undef /\ Given("k1").set # Undef
  /\ After("k1").get = Undef


\* the containers reachable from the input of the call
InputGraph == Reach(heap0, IdsOf(<<args[1]>>))

\* the container that duplicates the input container i
DupId(i) == Dup(Ref(i))[2]

\* o holds what x holds, whatever the flags of their properties
SameShape(o, x) ==
  /\ o.kind = x.kind
  /\ Len(o.elems) = Len(x.elems)
  /\ \A i \in 1..Len(o.elems) :
       IF o.kind \in {"rec", "oth"}
       THEN /\ o.elems[i][1] = x.elems[i][1]
            /\ o.elems[i][2].data = x.elems[i][2].data
            /\ o.elems[i][2].value = x.elems[i][2].value
            /\ o.elems[i][2].get = x.elems[i][2].get
            /\ o.elems[i][2].set = x.elems[i][2].set
       ELSE o.elems[i] = x.elems[i]

\* C17: clone maps the containers reachable from its input one-to-one onto
\* new containers; every reference of the original, to itself, to an
\* ancestor or shared, is in the clone the reference to the duplicate.
C17_OneToOne ==
  Returned("clone") =>
    /\ ret = Dup(args[1])
    /\ \A i \in InputGraph :
         /\ Cardinality({p \in cmemo : p[1] = i}) = 1
         /\ DupId(i) \notin InputIds
         /\ SameShape(heap[DupId(i)], DupObj(heap0[i]))
    /\ \A i, j \in InputGraph : DupId(i) = DupId(j) => i = j
    /\ Reach(heap, IdsOf(<<ret>>)) = {DupId(i) : i \in InputGraph}

\* the clone of a record whose two properties hold one record, which refers
\* back to its parent
C17_Witness ==
  /\ Returned("clone")
  /\ IsKind(heap0, A, "rec")
  /\ HasKey(heap0[1].elems, "k1") /\ HasKey(heap0[1].elems, "k2")
  /\ Lookup(heap0[1].elems, "k1").value = Ref(3)
  /\ Lookup(heap0[1].elems, "k2").value = Ref(3)
  /\ 1 \in RefsOf(heap0[3])
  /\ Lookup(heap[ret[2]].elems, "k1").value = Lookup(heap[ret[2]].elems, "k2").value
  /\ Lookup(heap[ret[2]].elems, "k1").value # Ref(3)
  /\ ret[2] \in RefsOf(heap[Lookup(heap[ret[2]].elems, "k1").value[2]])

\* C18: a cloned property has the original's enumerable flag when
\* preservesEnumerable is set and is enumerable otherwise; it has the
\* original's writable and configurable flags when preservesImutable is set
\* and is writable and configurable otherwise; without preservesImutable
\* every duplicate is extensible, hence neither sealed nor frozen.
C18_FlagsFollowOptions ==
  Returned("clone") =>
    \A i \in InputGraph :
      /\ (~opts.imm) => IsExtensible(heap[DupId(i)]) /\ ~IsFrozen(heap[DupId(i)])
      /\ heap0[i].kind = "rec" =>
           \A k \in 1..Len(heap0[i].elems) :
             LET dsc == heap0[i].elems[k][2]
                 cl  == Lookup(heap[DupId(i)].elems, heap0[i].elems[k][1])
             IN /\ cl.e = (IF opts.enum THEN dsc.e ELSE TRUE)
                /\ cl.c = (IF opts.imm THEN dsc.c ELSE TRUE)
                /\ dsc.data => cl.w = (IF opts.imm THEN dsc.w ELSE TRUE)

\* the default clone of a frozen record: extensible, its properties writable
\* and configurable
C18_Witness ==
  /\ Returned("clone") /\ opts = DefaultOptions
  /\ IsKind(heap0, A, "rec") /\ IsFrozen(heap0[1]) /\ Len(heap0[1].elems) = 2
  /\ IsExtensible(heap[ret[2]])
  /\ \A k \in 1..Len(heap[ret[2]].elems) :
       heap[ret[2]].elems[k][2].w /\ heap[ret[2]].elems[k][2].c


\* C19 as stated: merge, assign and clone raise no error on any input, and
\* the only error intersect raises is the CircularReferenceError.
C19_OnlyCircularReferenceError ==
  pc = "done" =>
    \/ err = "none"
    \/ op = "intersect" /\ err = "CircularReferenceError"

\* a call with the argument list <<a, undefined>> returned
AbsentCombined(name) == Returned(name) /\ args = <<A, Undef>>

\* C20 as stated: the binary step of merge, of assign and of intersect
\* applied to (a, undefined) yields a.
C20_FillInEverywhere ==
  /\ AbsentCombined("merge") => ret = Dup(A) /\ ret # A
  /\ AbsentCombined("assign") => ret = A /\ heap = heap0
  /\ AbsentCombined("intersect") => ret = A

\* C20: the binary step of merge and of assign applied to (a, undefined)
\* yields a; the binary step of intersect applied to a container a and
\* undefined yields undefined.
C20_FillInButIntersect ==
  /\ AbsentCombined("merge") => ret = Dup(A) /\ ret # A
  /\ AbsentCombined("assign") => ret = A /\ heap = heap0
  /\ AbsentCombined("intersect") => ret = Undef /\ heap = heap0

\* intersect(a, undefined) returned undefined for a record a with properties
C20_Witness ==
  /\ AbsentCombined("intersect")
  /\ IsKind(heap0, A, "rec") /\ Len(heap0[1].elems) = 2
  /\ ret = Undef


\* merge(a, b) returned for the two input records
RecordsMerged ==
  /\ Returned("merge") /\ args = <<A, B>>
  /\ IsKind(heap0, A, "rec") /\ IsKind(heap0, B, "rec")

\* the property of merge(a, b) under key
Merged(key) == Lookup(heap[ret[2]].elems, key)

\* C21: for a key of both records with an accessor on at least one side,
\* merge takes b per slot: two accessors give b's get and set where b
\* defines them and a's otherwise; data in a and an accessor in b give b's
\* accessor without a value; an accessor in a and data in b give a data
\* property holding b's value, without get and set.
C21_AccessorsPerSlot ==
  RecordsMerged =>
    \A key \in CommonKeys :
      LET da == Before(key)
          db == Given(key)
      IN (~da.data \/ ~db.data) =>
           /\ HasKey(heap[ret[2]].elems, key)
           /\ Merged(key).data = db.data
           /\ (~da.data /\ ~db.data) =>
                /\ Merged(key).get = (IF db.get # Undef THEN db.get ELSE da.get)
                /\ Merged(key).set = (IF db.set # Undef THEN db.set ELSE da.set)
           /\ (da.data /\ ~db.data) =>
                /\ Merged(key).get = db.get /\ Merged(key).set = db.set
                /\ Merged(key).value = Undef
           /\ (~da.data /\ db.data) =>
                /\ Merged(key).value = Dup(db.value)
                /\ Merged(key).get = Undef /\ Merged(key).set = Undef

\* two accessors under k1: a defines get and set, b a setter only; the merge
\* holds a's getter and b's setter
C21_Witness ==
  /\ RecordsMerged /\ "k1" \in CommonKeys
  /\ ~Before("k1").data /\ Before("k1").get = Fn(1) /\ Before("k1").set = Fn(2)
  /\ ~Given("k1").data /\ Given("k1").get = Undef /\ Given("k1").set = Fn(4)
  /\ ~Merged("k1").data
  /\ Merged("k1").get = Fn(1) /\ Merged("k1").set = Fn(4)

\* C22 as stated: intersect invokes no getter of its inputs.
C22_IntersectInvokesNoGetter ==
  Done("intersect") => calls = 0


\* C23 as stated: the intersection of two arrays is a new array in which no
\* value occurs more than once, even when it occurs several times in the
\* first array.
C23_IntersectionWithoutRepeats ==
  (SequencesIntersected /\ err = "none") =>
    /\ IsKind(heap, ret, "arr") /\ ret[2] \notin InputIds
    /\ NoRepeat(heap[ret[2]].elems)

C25_HardenedAfterFilled ==
  (Done("clone") /\ opts.imm) =>
    /\ err = "none"
    /\ \A i \in InputGraph :
         /\ SameShape(heap[DupId(i)], DupObj(heap0[i]))
         /\ IsExtensible(heap[DupId(i)]) = IsExtensible(heap0[i])
         /\ IsSealed(heap[DupId(i)]) = IsSealed(heap0[i])
         /\ IsFrozen(heap[DupId(i)]) = IsFrozen(heap0[i])


(***************************************************************************)
(* C26: two clone calls share nothing: no container reachable from the     *)
(* value the second call returned is reachable from the value the first    *)
(* call returned, whatever options object the second call is given.        *)
(***************************************************************************)
C26_CallsShareNothing ==
  (pc = "again" /\ err = "none" /\ IsRef(prev) /\ IsRef(ret))
    => Reach(heap, {ret[2]}) \cap Reach(heap, {prev[2]}) = {}

\* some container of the input graph under id lies on a cycle
Cyclic(id) ==
  \E i \in Reach(heap0, {id}) : i \in Reach(heap0, RefsOf(heap0[i]))

(***************************************************************************)
(* C27: intersect tells shared substructure from a cycle.  A pair of       *)
(* containers that is reached again after its call has returned is         *)
(* answered, without an error, with the value that call returned; and      *)
(* intersect(a, b) throws CircularReferenceError only when the graph of a  *)
(* and the graph of b both have a cycle.                                   *)
(***************************************************************************)
C27_SharedNotCircular ==
  Done("intersect") =>
    /\ \A e \in trace : e[1] = "again" => e[4]
    /\ (Len(args) = 2 /\ err = "CircularReferenceError") =>
         /\ IsRef(args[1]) /\ IsRef(args[2])
         /\ Cyclic(args[1][2]) /\ Cyclic(args[2][2])

\* a = {k1: x, k2: x} with a cycle through x, b = {k1: y, k2: y} without a
\* cycle: the pair (x, y) is reached twice, nothing is thrown, and both
\* properties of the result hold the one record made for the pair
C27_Witness ==
  /\ Done("intersect") /\ args = <<A, B>> /\ err = "none"
  /\ heap0[1].kind = "rec" /\ Cyclic(1) /\ ~Cyclic(2)
  /\ <<"again", 3, 4, TRUE>> \in trace
  /\ IsRef(ret) /\ ret[2] > Len(heap0)
  /\ HasKey(heap[ret[2]].elems, "k1") /\ HasKey(heap[ret[2]].elems, "k2")
  /\ LET v1 == Lookup(heap[ret[2]].elems, "k1").value
         v2 == Lookup(heap[ret[2]].elems, "k2").value
     IN IsRef(v1) /\ v1 = v2 /\ v1[2] > Len(heap0)

(***************************************************************************)
(* C28: every intersect call ends, and ends in one of two ways: it returns *)
(* a value or it throws CircularReferenceError.                            *)
(***************************************************************************)
C28_ReturnsOrCircular ==
  Done("intersect") => err \in {"none", "CircularReferenceError"}

\* merge(a, b) of two maps that each hold themselves under the key 1
SelfMaps ==
  /\ Done("merge") /\ args = <<A, B>>
  /\ heap0[1] = Container("map", Ref(1), None)
  /\ heap0[2] = Container("map", Ref(2), None)

\* the map `inner` found under the key 1 of the result holds itself
InnerHoldsItself ==
  /\ IsRef(ret) /\ heap[ret[2]].kind = "map"
  /\ HasKey(heap[ret[2]].elems, Prim(1))
  /\ LET inner == Lookup(heap[ret[2]].elems, Prim(1))
     IN /\ IsRef(inner) /\ heap[inner[2]].kind = "map"
        /\ HasKey(heap[inner[2]].elems, Prim(1))
        /\ Lookup(heap[inner[2]].elems, Prim(1)) = inner

(***************************************************************************)
(* C29: merge returns on every tuple of input graphs, self-referencing and *)
(* mutually referencing records and maps included; for two maps that each  *)
(* hold themselves the result holds a map that holds itself.               *)
(***************************************************************************)
C29_MergeReturns ==
  Done("merge") => /\ err = "none"
                   /\ SelfMaps => InnerHoldsItself

(***************************************************************************)
(* C30: during a binary intersect step the memo entries that hold the      *)
(* sentinel are exactly the pairs of containers on the recursion stack,    *)
(* every pair whose call has returned maps to the value it returned, and   *)
(* after a step that returned no memo entry holds the sentinel.            *)
(***************************************************************************)
C30_SentinelMarksStack ==
  Done("intersect") =>
    /\ \A e \in trace : e[1] # "drift"
    /\ err = "none" => \A t \in imemo : t[3] # Sentinel

\* intersect(a, b) of two records returned after a nested call for the pair
\* of the containers 3 and 4: the memo maps both pairs to their results
C30_Witness ==
  /\ Done("intersect") /\ args = <<A, B>> /\ err = "none"
  /\ heap0[1].kind = "rec"
  /\ <<1, 2, ret>> \in imemo
  /\ \E t \in imemo : t[1] = 3 /\ t[2] = 4 /\ IsRef(t[3]) /\ t[3][2] > Len(heap0)

====
